---- MODULE Spec2Model ----
(***************************************************************************)
(* Model of train_gan.py: the WGAN-GP training loop (train_gan) and the    *)
(* gradient-penalty function (calc_gradient_penalty).                      *)
(*                                                                         *)
(* Spec    : one call of train_gan, optionally followed by a second call   *)
(*           that resumes from the checkpoint file the first one wrote.    *)
(* SpecGP  : calc_gradient_penalty applied to bounded real/fake batches.   *)
(*                                                                         *)
(* Numbers are exact (integers and rationals), not floating point.  The    *)
(* networks, the autograd engine and Adam are library black boxes: a       *)
(* network is the digest of the updates applied to it, a critic score is   *)
(* an input drawn from a small set.                                         *)
(***************************************************************************)
EXTENDS Integers, Sequences, FiniteSets, TLC

(* ------------------------------ bounds --------------------------------- *)
MaxEpochs == 2
MaxBatches == 2
MaxCriticIters == 2
MaxStep == 2
MaxScore == 1
MaxPenalty == 1
MaxBatch == 3
MaxPix == 1
MaxNorm == 2
AlphaDen == 2

\* --lambda_gp, default 10
LAMBDA_GP == 10

\* A mean critic score is 0 or MaxScore, a gradient penalty 0 or MaxPenalty.
Scores == {0, MaxScore}
Penalties == {0, MaxPenalty}

(* ------------------------------- state --------------------------------- *)
VARIABLES
    \* module-level hyperparameters and data (train_gan.py:231-255)
    EPOCHS, CRITIC_ITERS, DISPLAY_STEP, SAVE_STEP, train_loader,
    \* arguments of the running call of train_gan
    epochs, checkpoint,
    \* networks
    generator, discriminator, requires_grad, d_grad_passes,
    \* optimizers and schedulers
    optim_G, optim_D, scheduler_G, scheduler_D,
    \* loop position and locals
    pc, epoch, idx, d_loss, g_loss, validity_score, d_losses, g_losses,
    steps_D, steps_G, last_step,
    \* outputs
    debug_imgs, save_log, ckpt_file, at_save, result,
    \* calc_gradient_penalty
    gp_pc, real_samples, fake_samples, alpha, interpolates, gradient_penalty

cfg_vars == <<EPOCHS, CRITIC_ITERS, DISPLAY_STEP, SAVE_STEP, train_loader>>
net_vars == <<generator, discriminator, requires_grad, d_grad_passes>>
opt_vars == <<optim_G, optim_D, scheduler_G, scheduler_D>>
loop_vars == <<pc, epoch, idx, d_loss, g_loss, validity_score, d_losses, g_losses,
               steps_D, steps_G, last_step>>
out_vars == <<debug_imgs, save_log, ckpt_file, at_save, result>>
train_vars == <<cfg_vars, epochs, checkpoint, net_vars, opt_vars, loop_vars, out_vars>>
gp_vars == <<gp_pc, real_samples, fake_samples, alpha, interpolates, gradient_penalty>>
vars == <<train_vars, gp_vars>>

\* The latent batch drawn once at startup (torch.randn at module level).
DEBUG_VECTOR == "DEBUG_VECTOR"

\* A Python name that is not bound yet is <<>>, a bound one is <<value>>.
Unbound == <<>>
Bound(v) == <<v>>

(* ----------------------- optimizers and schedules ---------------------- *)
\* A learning rate is LEARNING_RATE times a product of cosine factors; the
\* factor <<a, b>> stands for (1 + cos(pi * a / b)) / 2.  The empty product
\* is LEARNING_RATE itself.  Factors are kept folded into 0 <= a <= b.
Fold(a, b) == LET r == a % (2 * b) IN <<IF r > b THEN 2 * b - r ELSE r, b>>

\* optim.Adam(params, lr=LEARNING_RATE, betas=(0.5, 0.9)): no step taken, no
\* moments, the learning rate LEARNING_RATE.
Adam == [step |-> 0, exp_avg |-> 0, lr |-> <<>>]

\* Optimizer.step(): one more step; the moment estimates move to the new
\* gradient (their digest is the gradient they absorbed last).
OptimStep(opt, grad) == [opt EXCEPT !.step = @ + 1, !.exp_avg = grad]

\* Optimizer.state_dict(): the per-parameter state and the parameter groups.
StateDict(opt) ==
    [state |-> [step |-> opt.step, exp_avg |-> opt.exp_avg],
     param_groups |-> [lr |-> opt.lr]]

\* A load that restores the per-parameter state but not the parameter groups.
LoadStateDict_StateOnly(opt, sd) ==
    [step |-> sd.state.step, exp_avg |-> sd.state.exp_avg, lr |-> opt.lr]

\* Optimizer.load_state_dict(sd): both the state and the parameter groups
\* (so also the learning rate in effect) are replaced by the saved ones.
LoadStateDict(opt, sd) ==
    [step |-> sd.state.step, exp_avg |-> sd.state.exp_avg, lr |-> sd.param_groups.lr]

\* CosineAnnealingLR(optimizer, T_max = T_num / T_den, eta_min = 0): position
\* 0 after the constructor's initial step, which leaves the rate as it is.
CosineAnnealingLR(T_num, T_den) == [last_epoch |-> 0, T_num |-> T_num, T_den |-> T_den]

\* The factor of the closed form at the scheduler's position.
Factor(s) == Fold(s.last_epoch * s.T_den, s.T_num)
IsUnit(fc) == fc[1] = 0
IsZero(fc) == fc[1] = fc[2]
Strip(fc) == IF IsUnit(fc) THEN <<>> ELSE <<fc>>

\* CosineAnnealingLR.get_lr() for the step from position s to position n.
\* (last_epoch - 1 - T_max) % (2 * T_max) == 0: the rate restarts from its
\* zero, base_lr * (1 - cos(pi / T_max)) / 2.  Otherwise the current rate is
\* multiplied by (1 + cos(pi * last_epoch / T_max)) /
\* (1 + cos(pi * (last_epoch - 1) / T_max)).
GetLr(s, n, lr) ==
    IF ((n.last_epoch - 1) * n.T_den - n.T_num) % (2 * n.T_num) = 0
    THEN Strip(Factor(n))
    ELSE (IF IsUnit(Factor(s)) THEN lr ELSE SubSeq(lr, 1, Len(lr) - 1)) \o Strip(Factor(n))

\* A step that does not move the schedule.
SchedulerAdvance_Stuck(s) == s

\* scheduler.step(): the position advances by one and the new rate is
\* written into the optimizer's parameter group.
SchedulerAdvance(s) == [s EXCEPT !.last_epoch = @ + 1]
SchedulerLr(s, opt) == [opt EXCEPT !.lr = GetLr(s, SchedulerAdvance(s), opt.lr)]

\* The value of a learning rate: zero iff one of its factors is zero.
LrIsZero(lr) == \E i \in 1..Len(lr) : IsZero(lr[i])
\* lr1 <= lr2 for rates of one fresh schedule (at most one factor each, same b).
LrLeq(lr1, lr2) ==
    \/ lr2 = <<>>
    \/ lr1 # <<>> /\ lr1[1][1] * lr2[1][2] >= lr2[1][1] * lr1[1][2]

(* ------------------------------ train_gan ------------------------------ *)
None == <<>>

\* Lines 98-106: the optimizers and schedules a call of train_gan starts with.
EntryOptim(ckpt, key) == IF ckpt # None THEN LoadStateDict(Adam, ckpt[1][key]) ELSE Adam
EntryPc(e) == IF e = 0 THEN "return" ELSE "critic"

\* The state on entry to train_gan(generator, discriminator, name, EPOCHS).
InitTrain ==
    /\ epochs = EPOCHS
    /\ checkpoint = None
    /\ generator = 0
    /\ discriminator = 0
    /\ requires_grad = TRUE
    /\ d_grad_passes = 0
    /\ optim_G = EntryOptim(None, "optimizer_G_state_dict")
    /\ optim_D = EntryOptim(None, "optimizer_D_state_dict")
    /\ scheduler_G = CosineAnnealingLR(EPOCHS, CRITIC_ITERS)
    /\ scheduler_D = CosineAnnealingLR(EPOCHS, 1)
    /\ pc = EntryPc(EPOCHS)
    /\ epoch = 0
    /\ idx = 0
    /\ d_loss = Unbound
    /\ g_loss = Unbound
    /\ validity_score = Unbound
    /\ d_losses = <<>>
    /\ g_losses = <<>>
    /\ steps_D = 0
    /\ steps_G = 0
    /\ last_step = "none"
    /\ debug_imgs = {}
    /\ save_log = <<>>
    /\ ckpt_file = None
    /\ at_save = None
    /\ result = None

\* calc_gradient_penalty is not running.
GPOff ==
    /\ gp_pc = "off"
    /\ real_samples = <<>>
    /\ fake_samples = <<>>
    /\ alpha = <<>>
    /\ interpolates = <<>>
    /\ gradient_penalty = None

Init ==
    /\ EPOCHS \in 0..MaxEpochs
    /\ CRITIC_ITERS \in 1..MaxCriticIters
    /\ DISPLAY_STEP \in 1..MaxStep
    /\ SAVE_STEP \in 1..MaxStep
    /\ train_loader \in 1..MaxBatches      \* len(train_loader), never empty
    /\ InitTrain
    /\ GPOff

\* Line 163: d_loss = d_loss_fake - d_loss_real + grad_penalty.
CriticLoss(real_mean, fake_mean, grad_penalty) == fake_mean - real_mean + grad_penalty

\* Line 186: g_loss = validity_score.mean().
GeneratorLoss(score_mean) == score_mean

\* A critic phase that leaves the flags as the last phase set them.
CriticPhaseFlag_Kept == requires_grad

\* Lines 135-136 and 176-177: the flag written on every critic parameter.
CriticPhaseFlag == TRUE
GeneratorPhaseFlag == FALSE

\* Line 170: (idx + 1) % CRITIC_ITERS == 0 or len(train_loader).
GeneratorDue(i) == ((i + 1) % CRITIC_ITERS = 0) \/ (train_loader # 0)

\* Lines 192-193 and the for statement of line 129: the progress bar reads
\* g_loss (a NameError while it is unbound), then the loop goes on.
AfterBatch(gl) ==
    IF gl = Unbound THEN "crashed"
    ELSE IF idx + 1 < train_loader THEN "critic" ELSE "epoch_end"

\* Lines 135-170: the critic phase of one batch.
CriticPhase ==
    /\ pc = "critic"
    /\ \E real_mean \in Scores, fake_mean \in Scores, grad_penalty \in Penalties :
         LET dl == CriticLoss(real_mean, fake_mean, grad_penalty)
             stepped == OptimStep(optim_D, dl)
         IN /\ d_loss' = Bound(dl)
            /\ optim_D' = SchedulerLr(scheduler_D, stepped)
            /\ scheduler_D' = SchedulerAdvance(scheduler_D)
    /\ requires_grad' = CriticPhaseFlag
    \* zero_grad, then three backward passes through the critic
    /\ d_grad_passes' = IF requires_grad' THEN 3 ELSE 0
    /\ discriminator' = discriminator + 1
    /\ steps_D' = steps_D + 1
    /\ last_step' = "D"
    /\ pc' = IF GeneratorDue(idx) THEN "generator" ELSE AfterBatch(g_loss)
    /\ idx' = IF pc' = "critic" THEN idx + 1 ELSE idx
    /\ UNCHANGED <<cfg_vars, epochs, checkpoint, generator, optim_G, scheduler_G,
                   epoch, g_loss, validity_score, d_losses, g_losses, steps_G,
                   out_vars, gp_vars>>

\* Lines 176-190: the generator phase of one batch.
GeneratorPhase ==
    /\ pc = "generator"
    /\ \E score_mean \in Scores :
         LET gl == GeneratorLoss(score_mean)
             stepped == OptimStep(optim_G, gl)
         IN /\ validity_score' = Bound(score_mean)
            /\ g_loss' = Bound(gl)
            /\ optim_G' = SchedulerLr(scheduler_G, stepped)
            /\ scheduler_G' = SchedulerAdvance(scheduler_G)
    /\ requires_grad' = GeneratorPhaseFlag
    \* g_loss.backward reaches the critic's weights only if they require grad
    /\ d_grad_passes' = IF requires_grad' THEN d_grad_passes + 1 ELSE d_grad_passes
    /\ generator' = generator + 1
    /\ steps_G' = steps_G + 1
    /\ last_step' = "G"
    /\ pc' = AfterBatch(g_loss')
    /\ idx' = IF pc' = "critic" THEN idx + 1 ELSE idx
    /\ UNCHANGED <<cfg_vars, epochs, checkpoint, discriminator, optim_D, scheduler_D,
                   epoch, d_loss, d_losses, g_losses, steps_D, out_vars, gp_vars>>

\* The cadence test applied to the 0-based epoch itself.
DisplayDue_ZeroBased(e) == e % DISPLAY_STEP = 0

\* Lines 198 and 204: the cadence tests on the 0-based epoch.
DisplayDue(e) == (e + 1) % DISPLAY_STEP = 0
SaveDue(e) == (e + 1) % SAVE_STEP = 0

\* Lines 200-201: the image written for epoch e.
DebugImage(e) == [name |-> e + 1, input |-> DEBUG_VECTOR, weights |-> generator]

\* Lines 212-218: the dictionary handed to torch.save.
CheckpointDict(e) ==
    [epoch |-> e + 1,
     generator_state_dict |-> generator,
     discriminator_state_dict |-> discriminator,
     optimizer_G_state_dict |-> StateDict(optim_G),
     optimizer_D_state_dict |-> StateDict(optim_D)]

\* A history that keeps only the latest value.
AppendLoss_Overwrite(history, loss) == <<loss[1]>>

\* Lines 195-196: g_losses.append(g_loss.item()), d_losses.append(d_loss.item()).
AppendLoss(history, loss) == Append(history, loss[1])

\* Lines 195-220: the end of an epoch.
EndEpoch ==
    /\ pc = "epoch_end"
    /\ g_losses' = AppendLoss(g_losses, g_loss)
    /\ d_losses' = AppendLoss(d_losses, d_loss)
    /\ debug_imgs' = IF DisplayDue(epoch) THEN debug_imgs \cup {DebugImage(epoch)}
                     ELSE debug_imgs
    /\ IF SaveDue(epoch)
       THEN /\ ckpt_file' = <<CheckpointDict(epoch)>>
            /\ save_log' = Append(save_log, epoch + 1)
            /\ at_save' = <<[optim_G |-> optim_G, optim_D |-> optim_D,
                             scheduler_G |-> scheduler_G, scheduler_D |-> scheduler_D]>>
       ELSE UNCHANGED <<ckpt_file, save_log, at_save>>
    /\ epoch' = epoch + 1
    /\ idx' = 0
    /\ pc' = IF epoch + 1 < epochs THEN "critic" ELSE "return"
    /\ UNCHANGED <<cfg_vars, epochs, checkpoint, net_vars, opt_vars, d_loss, g_loss,
                   validity_score, steps_D, steps_G, last_step, result, gp_vars>>

\* Line 222: return [g_losses, d_losses].
Return ==
    /\ pc = "return"
    /\ result' = <<[g_losses |-> g_losses, d_losses |-> d_losses]>>
    /\ pc' = "done"
    /\ UNCHANGED <<cfg_vars, epochs, checkpoint, net_vars, opt_vars, epoch, idx, d_loss,
                   g_loss, validity_score, d_losses, g_losses, steps_D, steps_G,
                   last_step, debug_imgs, save_log, ckpt_file, at_save, gp_vars>>

\* Lines 260-268: the process is stopped after a checkpoint was written and a
\* new process calls train_gan(generator, discriminator, name,
\* EPOCHS - checkpoint.get('epoch'), checkpoint=checkpoint) with the networks
\* loaded from the checkpoint.
Resume ==
    /\ checkpoint = None
    /\ ckpt_file # None
    /\ checkpoint' = ckpt_file
    /\ epochs' = EPOCHS - ckpt_file[1].epoch
    /\ generator' = ckpt_file[1].generator_state_dict
    /\ discriminator' = ckpt_file[1].discriminator_state_dict
    /\ requires_grad' = TRUE
    /\ d_grad_passes' = 0
    /\ optim_G' = EntryOptim(checkpoint', "optimizer_G_state_dict")
    /\ optim_D' = EntryOptim(checkpoint', "optimizer_D_state_dict")
    /\ scheduler_G' = CosineAnnealingLR(epochs', CRITIC_ITERS)
    /\ scheduler_D' = CosineAnnealingLR(epochs', 1)
    /\ pc' = EntryPc(epochs')
    /\ epoch' = 0
    /\ idx' = 0
    /\ d_loss' = Unbound
    /\ g_loss' = Unbound
    /\ validity_score' = Unbound
    /\ d_losses' = <<>>
    /\ g_losses' = <<>>
    /\ steps_D' = 0
    /\ steps_G' = 0
    /\ last_step' = "none"
    /\ debug_imgs' = {}
    /\ save_log' = <<>>
    /\ result' = None
    /\ UNCHANGED <<cfg_vars, ckpt_file, at_save, gp_vars>>

Next == CriticPhase \/ GeneratorPhase \/ EndEpoch \/ Return \/ Resume

Spec == Init /\ [][Next]_vars

(* ------------------------ calc_gradient_penalty ------------------------ *)
\* A sample is one pixel; a batch is a sequence of samples.  A weight alpha
\* is the numerator k of k / AlphaDen, and an interpolated pixel is kept
\* multiplied by AlphaDen, so that all values are integers.
Pixels == {0, MaxPix}
Norms == {1, MaxNorm}
Batches == UNION {[1..n -> Pixels] : n \in 1..MaxBatch}

\* torch.rand(batch_size, 1, 1, 1): one weight per sample, in [0, 1).
Alphas(batch_size) == [1..batch_size -> 0..(AlphaDen - 1)]

\* Broadcasting of the batch dimension: equal sizes, or one of them 1;
\* 0 stands for the RuntimeError of incompatible sizes.
Broadcast(m, n) == IF m = n THEN m ELSE IF m = 1 THEN n ELSE IF n = 1 THEN m ELSE 0
Pick(batch, i) == IF Len(batch) = 1 THEN batch[1] ELSE batch[i]

\* The combination with the two weights exchanged.
Interpolate_Swapped(a, real, fake) == a * fake + (AlphaDen - a) * real

\* Line 65, one element: alpha * real + (1 - alpha) * fake.
Interpolate(a, real, fake) == a * real + (AlphaDen - a) * fake

\* Line 65, the batch: the RuntimeError, or the broadcast combination.
Interpolates(al, real, fake) ==
    LET n == Broadcast(Broadcast(Len(al), Len(real)), Broadcast(Len(al), Len(fake)))
    IN IF Broadcast(Len(al), Len(fake)) = 0 \/ n = 0
       THEN [raised |-> TRUE, value |-> <<>>]
       ELSE [raised |-> FALSE,
             value |-> [i \in 1..n |->
                          Interpolate(Pick(al, i), Pick(real, i), Pick(fake, i))]]

RECURSIVE SumSqDev(_)
SumSqDev(norms) ==
    IF norms = <<>> THEN 0
    ELSE (Head(norms) - 1) * (Head(norms) - 1) + SumSqDev(Tail(norms))

\* Line 85: lambda_gp * ((gradients.norm(2, dim=1) - 1) ** 2).mean().
Penalty(norms) == [num |-> LAMBDA_GP * SumSqDev(norms), den |-> Len(norms)]

InitGP ==
    /\ EPOCHS = 0
    /\ CRITIC_ITERS = 1
    /\ DISPLAY_STEP = 1
    /\ SAVE_STEP = 1
    /\ train_loader = 1
    /\ InitTrain
    /\ gp_pc = "start"
    /\ real_samples \in Batches
    /\ fake_samples \in Batches
    /\ alpha = <<>>
    /\ interpolates = <<>>
    /\ gradient_penalty = None

\* Lines 59-66: draw the weights and interpolate.
GPInterpolate ==
    /\ gp_pc = "start"
    /\ \E al \in Alphas(Len(real_samples)) :
         /\ alpha' = al
         /\ LET r == Interpolates(al, real_samples, fake_samples)
            IN /\ interpolates' = r.value
               /\ gp_pc' = IF r.raised THEN "RuntimeError" ELSE "interpolated"
    /\ UNCHANGED <<train_vars, real_samples, fake_samples, gradient_penalty>>

\* Lines 68-87: the critic's gradient on the interpolates, viewed as
\* batch_size rows, one norm per row, and the penalty.
GPPenalty ==
    /\ gp_pc = "interpolated"
    /\ LET batch_size == Len(real_samples)
       IN IF Len(interpolates) % batch_size # 0
          THEN /\ gp_pc' = "RuntimeError"
               /\ UNCHANGED gradient_penalty
          ELSE \E norms \in [1..batch_size -> Norms] :
                 /\ gradient_penalty' = <<Penalty(norms)>>
                 /\ gp_pc' = "returned"
    /\ UNCHANGED <<train_vars, real_samples, fake_samples, alpha, interpolates>>

NextGP == GPInterpolate \/ GPPenalty

SpecGP == InitGP /\ [][NextGP]_vars

(* ------------------------------- claims -------------------------------- *)
\* Batches whose critic phase has run in this call of train_gan.
BatchesDone ==
    epoch * train_loader + idx + (IF pc \in {"generator", "epoch_end"} THEN 1 ELSE 0)

\* Optimizer steps taken before this call (restored from the checkpoint).
LoadedSteps(key) == IF checkpoint = None THEN 0 ELSE checkpoint[1][key].state.step

IsPrefix(a, b) == Len(a) <= Len(b) /\ SubSeq(b, 1, Len(a)) = a

\* C1: between batches, the critic has stepped once per batch and the
\* generator once per batch whose 1-based index in its epoch is a multiple
\* of CRITIC_ITERS.
CE_C1 ==
    pc # "generator" =>
        /\ steps_D = BatchesDone
        /\ steps_G = epoch * (train_loader \div CRITIC_ITERS)
                     + ((steps_D - epoch * train_loader) \div CRITIC_ITERS)

\* C2: each schedule has advanced exactly as often as its optimizer has
\* stepped in this call: the critic's once per batch, the generator's once
\* per generator phase; the optimizers' own step counts agree.
Thm_C2 ==
    /\ scheduler_D.last_epoch = steps_D
    /\ scheduler_G.last_epoch = steps_G
    /\ steps_D = BatchesDone
    /\ optim_D.step = LoadedSteps("optimizer_D_state_dict") + scheduler_D.last_epoch
    /\ optim_G.step = LoadedSteps("optimizer_G_state_dict") + scheduler_G.last_epoch

Wit_C2 == pc = "generator" /\ steps_D = 2 /\ steps_G = 1 /\ scheduler_D.last_epoch = 2

\* C3: after k completed epochs both loss histories have length k, the
\* returned histories have length epochs, and within a call a history only
\* grows at its end.
Thm_C3 ==
    /\ [](/\ epoch <= epochs
          /\ Len(g_losses) = epoch
          /\ Len(d_losses) = epoch
          /\ result # None => /\ Len(result[1].g_losses) = epochs
                              /\ Len(result[1].d_losses) = epochs)
    /\ [][checkpoint' = checkpoint =>
            /\ IsPrefix(g_losses, g_losses')
            /\ IsPrefix(d_losses, d_losses')]_vars

Wit_C3 == result # None /\ epochs = 2 /\ Len(result[1].g_losses) = 2 /\ steps_G >= 2

\* The resumed call has been entered and has not run a batch yet.
JustResumed == checkpoint # None /\ steps_D = 0

\* C4 (as claimed): on resuming from a checkpoint the optimizers (moments,
\* step count, learning rate) and the schedule positions are those of the
\* run that wrote the checkpoint and went on.
CE_C4 ==
    JustResumed =>
        /\ optim_G = at_save[1].optim_G
        /\ optim_D = at_save[1].optim_D
        /\ scheduler_G = at_save[1].scheduler_G
        /\ scheduler_D = at_save[1].scheduler_D

\* C4 (amended): on resuming, the optimizers (moments, step count and the
\* learning rate in effect) are those of the run that went on, and the
\* networks hold the checkpoint's weights; the schedules restart at
\* position 0 with the horizon of the resumed call.
Thm_C4 ==
    JustResumed =>
        /\ optim_G = at_save[1].optim_G
        /\ optim_D = at_save[1].optim_D
        /\ generator = checkpoint[1].generator_state_dict
        /\ discriminator = checkpoint[1].discriminator_state_dict
        /\ scheduler_G = CosineAnnealingLR(epochs, CRITIC_ITERS)
        /\ scheduler_D = CosineAnnealingLR(epochs, 1)
        /\ at_save[1].scheduler_D.last_epoch > 0

Wit_C4 ==
    /\ JustResumed
    /\ pc = "critic"
    /\ optim_D.lr # <<>>
    /\ optim_G.lr # <<>>
    /\ optim_D.step = 2

\* C5: the images written by this call are exactly those of the completed
\* epochs that are multiples of DISPLAY_STEP, all from DEBUG_VECTOR; the
\* checkpoints written are exactly those of the completed epochs that are
\* multiples of SAVE_STEP, and the file holds the epoch, both networks and
\* both optimizer states of the latest one.
Thm_C5 ==
    /\ {im.name : im \in debug_imgs} = {e \in 1..epoch : e % DISPLAY_STEP = 0}
    /\ \A im \in debug_imgs : im.input = DEBUG_VECTOR
    /\ Len(save_log) = Cardinality({e \in 1..epoch : e % SAVE_STEP = 0})
    /\ \A i \in 1..Len(save_log) : save_log[i] = i * SAVE_STEP
    /\ save_log # <<>> =>
         /\ ckpt_file # None
         /\ DOMAIN ckpt_file[1] = {"epoch", "generator_state_dict",
                                   "discriminator_state_dict",
                                   "optimizer_G_state_dict", "optimizer_D_state_dict"}
         /\ ckpt_file[1].epoch = save_log[Len(save_log)]
         /\ ckpt_file[1].optimizer_G_state_dict = StateDict(at_save[1].optim_G)
         /\ ckpt_file[1].optimizer_D_state_dict = StateDict(at_save[1].optim_D)
         /\ ckpt_file[1].optimizer_D_state_dict.state.step
              = LoadedSteps("optimizer_D_state_dict") + ckpt_file[1].epoch * train_loader

Wit_C5 ==
    /\ epoch = 2
    /\ DISPLAY_STEP = 2
    /\ SAVE_STEP = 2
    /\ Cardinality(debug_imgs) = 1
    /\ save_log = <<2>>
    /\ ckpt_file[1].epoch = 2

\* calc_gradient_penalty has interpolated equal-sized batches.
Interpolated ==
    /\ gp_pc \in {"interpolated", "returned"}
    /\ Len(real_samples) = Len(fake_samples)

Min(a, b) == IF a <= b THEN a ELSE b
Max(a, b) == IF a >= b THEN a ELSE b

\* C6: for equal-sized batches every interpolated sample is the convex
\* combination of its real and fake sample under its own weight: weight 0
\* gives the fake sample, weight 1 the real sample, and every weight in
\* [0, 1] a value between the two.
Thm_C6 ==
    Interpolated =>
        /\ Len(interpolates) = Len(real_samples)
        /\ \A i \in 1..Len(real_samples) :
             LET r == real_samples[i]
                 f == fake_samples[i]
             IN /\ interpolates[i] = Interpolate(alpha[i], r, f)
                /\ alpha[i] = 0 => interpolates[i] = AlphaDen * f
                /\ Interpolate(0, r, f) = AlphaDen * f
                /\ Interpolate(AlphaDen, r, f) = AlphaDen * r
                /\ \A a \in 0..AlphaDen :
                     /\ AlphaDen * Min(r, f) <= Interpolate(a, r, f)
                     /\ Interpolate(a, r, f) <= AlphaDen * Max(r, f)
                /\ AlphaDen * Min(r, f) <= interpolates[i]
                /\ interpolates[i] <= AlphaDen * Max(r, f)

Wit_C6 ==
    /\ Interpolated
    /\ Len(real_samples) = 2
    /\ alpha[1] = 0
    /\ alpha[2] # 0
    /\ real_samples[1] # fake_samples[1]
    /\ real_samples[2] # fake_samples[2]

\* C7: with batches of different sizes calc_gradient_penalty raises and
\* returns no penalty.
CE_C7 ==
    (gp_pc # "start" /\ Len(real_samples) # Len(fake_samples)) =>
        /\ gp_pc = "RuntimeError"
        /\ gradient_penalty = None

\* C8: in a full run no schedule advances beyond its horizon (epochs for the
\* critic, epochs / CRITIC_ITERS for the generator), the learning rates are
\* zero when the run ends, and they never rise from one step to the next.
CE_C8 ==
    /\ [](checkpoint = None =>
            /\ scheduler_D.last_epoch <= epochs
            /\ scheduler_G.last_epoch * CRITIC_ITERS <= epochs
            /\ (pc = "done" /\ epochs > 0) =>
                 /\ LrIsZero(optim_D.lr)
                 /\ LrIsZero(optim_G.lr))
    /\ [][(checkpoint = None /\ checkpoint' = None) =>
            /\ LrLeq(optim_D'.lr, optim_D.lr)
            /\ LrLeq(optim_G'.lr, optim_G.lr)]_vars

\* C9: the critic's parameters require grad at every critic optimizer step
\* and do not at any generator optimizer step, where the backward pass
\* leaves the three critic-phase gradients on the critic untouched.
Thm_C9 ==
    /\ last_step = "D" => requires_grad = TRUE /\ d_grad_passes = 3
    /\ last_step = "G" => requires_grad = FALSE /\ d_grad_passes = 3

Wit_C9 == last_step = "D" /\ pc = "generator" /\ idx = 0 /\ epoch = 1 /\ steps_G >= 1

\* C10: the generator loss is minus the mean critic score of the fake batch,
\* and the value appended for an epoch is that of the epoch's last
\* generator phase.
CE_C10 ==
    /\ validity_score # Unbound => g_loss = Bound(0 - validity_score[1])
    /\ (epoch >= 1 /\ idx = 0 /\ pc \in {"critic", "return", "done"}) =>
         g_losses[epoch] = 0 - validity_score[1]

====
